---- MODULE Spec2Model ----
(***************************************************************************)
(* Model of tiktoken_ffi/src/lib.rs: a process-wide                        *)
(*   static TOKENIZER: Mutex<Option<CoreBPE>>                              *)
(* and the three extern "C" entry points tiktoken_init, tiktoken_count and *)
(* tiktoken_cleanup, called by concurrent threads.                         *)
(*                                                                         *)
(* A C string is a sequence of fragments of text; the fragment BadByte is  *)
(* a byte that is never part of valid UTF-8, so CStr::to_str fails on any  *)
(* sequence that holds it.  A pointer is a record [null, bytes].           *)
(***************************************************************************)
EXTENDS Integers, Sequences, FiniteSets, TLC

\* ------------------------------------------------------------------ bounds

\* Longest text handed to tiktoken_count.
MaxTextLen == 2

\* The threads calling into the library.  Every race the library's contract
\* speaks of is between two calls.
Threads == {1, 2}

\* ------------------------------------------------------- values and inputs

NoThread == 0

BadByte == "0xFF"

Chars == {"a", "b"}

NullPtr == [null |-> TRUE, bytes |-> <<>>]

Ptr(b) == [null |-> FALSE, bytes |-> b]

\* Option<CoreBPE>::None
NoneV == "None"

\* The Option<CoreBPE> inside the Mutex.  `torn` is set while an assignment
\* `*tokenizer = value` is in progress: the old value `val` is being dropped
\* and the new one is not written yet.
Whole(v) == [val |-> v, torn |-> FALSE]

Tearing(v) == [val |-> v, torn |-> TRUE]

\* The names matched by tiktoken_init.
SchemeNames == {"o200k_base", "cl100k_base", "p50k_base", "p50k_edit", "r50k_base"}

\* The model identifiers handed to get_bpe_from_model; a CoreBPE is named by
\* the identifier it was built from.
Models == {"gpt-4o", "gpt-3.5-turbo", "text-davinci-003", "text-davinci-edit-001", "gpt2"}

\* Names that are not matched: wrong case, unknown, empty.
OtherNames == {"CL100K_BASE", "unknown_scheme"}

\* Arguments of tiktoken_init.
InitArgs ==
    {NullPtr}
    \cup {Ptr(<<n>>) : n \in SchemeNames \cup OtherNames}
    \cup {Ptr(<<>>), Ptr(<<"o200k_base", BadByte>>)}

RECURSIVE SeqsUpTo(_, _)
SeqsUpTo(S, n) ==
    IF n = 0 THEN {<<>>}
    ELSE LET shorter == SeqsUpTo(S, n - 1)
         IN  shorter \cup {Append(s, c) : s \in shorter, c \in S}

\* Arguments of tiktoken_count: no text, every text up to MaxTextLen, and
\* byte sequences that are not UTF-8.
CountArgs ==
    {NullPtr}
    \cup {Ptr(b) : b \in SeqsUpTo(Chars, MaxTextLen)}
    \cup {Ptr(<<BadByte>>), Ptr(<<"a", BadByte>>)}

\* ----------------------------------------------------------- status codes

StatusOk == 0

StatusNullInput == -1

StatusUnrecognized == -2

StatusLockFailure == -3

StatusResolutionFailed == -4

\* ------------------------------------------------------------ pure helpers

\* CStr::to_str: Ok for valid UTF-8, Err otherwise.
IsUtf8(bytes) == \A i \in 1..Len(bytes) : bytes[i] # BadByte

\* CStr::from_ptr(..).to_str().unwrap_or(default)
ToStrOr(bytes, default) == IF IsUtf8(bytes) THEN bytes ELSE default

\* The name falling back to the empty string, as the text does at line 43.
InitStrOrEmpty(bytes) == ToStrOr(bytes, <<>>)

\* line 13: the string tiktoken_init matches on.
InitStr(bytes) == ToStrOr(bytes, <<"cl100k_base">>)

\* The text converted lossily: every bad byte becomes a replacement character.
CountStrLossy(bytes) ==
    [i \in 1..Len(bytes) |-> IF bytes[i] = BadByte THEN "?" ELSE bytes[i]]

\* line 43: the string tiktoken_count encodes.
CountStr(bytes) == ToStrOr(bytes, <<>>)

\* The match with names compared without regard to case.
ModelOfAnyCase(s) ==
    CASE s \in {<<"o200k_base">>, <<"O200K_BASE">>}   -> "gpt-4o"
      [] s \in {<<"cl100k_base">>, <<"CL100K_BASE">>} -> "gpt-3.5-turbo"
      [] s \in {<<"p50k_base">>, <<"P50K_BASE">>}     -> "text-davinci-003"
      [] s \in {<<"p50k_edit">>, <<"P50K_EDIT">>}     -> "text-davinci-edit-001"
      [] s \in {<<"r50k_base">>, <<"R50K_BASE">>}     -> "gpt2"
      [] OTHER                                       -> ""

\* lines 16-23: the arms of the match; "" stands for the `_` arm.
ModelOf(s) ==
    CASE s = <<"o200k_base">>  -> "gpt-4o"
      [] s = <<"cl100k_base">> -> "gpt-3.5-turbo"
      [] s = <<"p50k_base">>   -> "text-davinci-003"
      [] s = <<"p50k_edit">>   -> "text-davinci-edit-001"
      [] s = <<"r50k_base">>   -> "gpt2"
      [] OTHER                 -> ""

\* get_bpe_from_model(m).ok(): the external lookup yields the encoder or fails.
GetBpeFromModel(m) == {m, NoneV}

\* The vocabulary the wrapped library builds an encoder of model m from.
TokenizerOf(m) ==
    CASE m = "gpt-4o"                -> "o200k_base"
      [] m = "gpt-3.5-turbo"         -> "cl100k_base"
      [] m = "text-davinci-003"      -> "p50k_base"
      [] m = "text-davinci-edit-001" -> "p50k_edit"
      [] m = "gpt2"                  -> "r50k_base"

\* The pairs of characters a vocabulary merges into one token.
Merges(scheme) ==
    CASE scheme = "o200k_base"  -> {<<"a", "a">>, <<"a", "b">>, <<"b", "a">>, <<"b", "b">>}
      [] scheme = "cl100k_base" -> {<<"a", "b">>, <<"b", "a">>}
      [] scheme = "p50k_base"   -> {<<"a", "a">>}
      [] scheme = "p50k_edit"   -> {<<"b", "b">>}
      [] OTHER                  -> {}

\* The number of tokens a vocabulary segments a text into: greedy, left to
\* right, one token per merged pair or single character.
RECURSIVE TokenCount(_, _)
TokenCount(scheme, text) ==
    IF Len(text) = 0 THEN 0
    ELSE IF Len(text) >= 2 /\ <<text[1], text[2]>> \in Merges(scheme)
         THEN 1 + TokenCount(scheme, SubSeq(text, 3, Len(text)))
         ELSE 1 + TokenCount(scheme, Tail(text))

\* bpe.encode_with_special_tokens(text).len() for the encoder of model m.
Encode(m, text) == TokenCount(TokenizerOf(m), text)

\* ------------------------------------------------------------------- state

VARIABLES
    slot,       \* contents of TOKENIZER: [val: NoneV or a model identifier, torn]
    holder,     \* thread holding the MutexGuard, or NoThread
    poisoned,   \* the Mutex's poison flag
    aborted,    \* the process was aborted by a panic
    pc,         \* per thread: where it is in its call
    arg,        \* per thread: the pointer argument of its call
    bpe,        \* per thread: the local `bpe` of tiktoken_init
    last,       \* the most recent call that ended
    lin         \* the slot as the calls that returned, taken in order, leave it

vars == <<slot, holder, poisoned, aborted, pc, arg, bpe, last, lin>>

\* A call that ended: its operation ("panic" for a tiktoken_count that
\* panicked), its argument and return value (0 where there is none), and the
\* Option its assignment to the slot dropped (NoneV when it assigned nothing).
Call(o, a, r, d) == [op |-> o, arg |-> a, ret |-> r, dropped |-> d]

NoCall == Call("none", NullPtr, 0, NoneV)

TypeOK ==
    /\ slot \in [val : Models \cup {NoneV}, torn : BOOLEAN]
    /\ holder \in Threads \cup {NoThread}
    /\ poisoned \in BOOLEAN
    /\ aborted \in BOOLEAN
    /\ pc \in [Threads -> {"idle", "init_lock", "init_guard", "init_assign",
                           "count_lock", "count_guard",
                           "cleanup_lock", "cleanup_guard", "cleanup_assign", "dead"}]
    /\ bpe \in [Threads -> Models \cup {NoneV}]

Init ==
    /\ slot = Whole(NoneV)
    /\ holder = NoThread
    /\ poisoned = FALSE
    /\ aborted = FALSE
    /\ pc = [t \in Threads |-> "idle"]
    /\ arg = [t \in Threads |-> NullPtr]
    /\ bpe = [t \in Threads |-> NoneV]
    /\ last = NoCall
    /\ lin = NoneV

\* Thread t returns r from operation o, having dropped d from the slot.
Return(t, o, a, r, d) ==
    /\ pc' = [pc EXCEPT ![t] = "idle"]
    /\ arg' = [arg EXCEPT ![t] = NullPtr]
    /\ bpe' = [bpe EXCEPT ![t] = NoneV]
    /\ last' = Call(o, a, r, d)

\* Thread t moves on inside its call.
Goto(t, where) ==
    /\ pc' = [pc EXCEPT ![t] = where]
    /\ UNCHANGED <<last, lin>>

\* A lock that never blocks.
LockNeverBlocks == TRUE

\* Mutex::lock blocks while another thread holds the guard.
LockFree == holder = NoThread

\* The guard forgotten (mem::forget) instead of dropped: the lock stays held.
UnlockForgets == UNCHANGED <<holder, poisoned>>

\* MutexGuard dropped without a panic: the lock is released, not poisoned.
Unlock ==
    /\ holder' = NoThread
    /\ UNCHANGED poisoned

\* ----------------------------------------------------------- tiktoken_init

\* The early return emptying the slot, as the failed resolution does.
InitRejectResets(t, p, status) ==
    /\ Return(t, "init", p, status, NoneV)
    /\ slot' = Whole(NoneV)
    /\ lin' = NoneV
    /\ UNCHANGED <<holder, poisoned, aborted>>

\* lines 11 and 22: an early return, before TOKENIZER is touched.
InitReject(t, p, status) ==
    /\ Return(t, "init", p, status, NoneV)
    /\ UNCHANGED <<slot, holder, poisoned, aborted, lin>>

\* lines 16-21: get_bpe_from_model for the matched name.
InitResolve(t, p) ==
    /\ \E b \in GetBpeFromModel(ModelOf(InitStr(p.bytes))) :
         bpe' = [bpe EXCEPT ![t] = b]
    /\ arg' = [arg EXCEPT ![t] = p]
    /\ Goto(t, "init_lock")
    /\ UNCHANGED <<slot, holder, poisoned, aborted>>

\* lines 8-23: null check, to_str, match.
InitCall(t, p) ==
    /\ ~aborted
    /\ pc[t] = "idle"
    /\ IF p.null THEN InitReject(t, p, StatusNullInput)
       ELSE IF ModelOf(InitStr(p.bytes)) = "" THEN InitReject(t, p, StatusUnrecognized)
       ELSE InitResolve(t, p)

\* The lock storing through the guard a poisoned Mutex still hands out, and
\* reporting the lock failure all the same.
InitLockStoresOnPoison(t) ==
    /\ ~aborted
    /\ pc[t] = "init_lock"
    /\ LockFree
    /\ IF poisoned
       THEN /\ slot' = Whole(bpe[t])
            /\ lin' = bpe[t]
            /\ Return(t, "init", arg[t], StatusLockFailure, NoneV)
            /\ UNCHANGED <<holder, poisoned, aborted>>
       ELSE /\ holder' = t
            /\ Goto(t, "init_guard")
            /\ UNCHANGED <<slot, poisoned, aborted, arg, bpe>>

\* The lock handed out in thread order to the tiktoken_init calls that wait.
InitLockInOrder(t) ==
    /\ ~aborted
    /\ pc[t] = "init_lock"
    /\ LockFree
    /\ \A u \in Threads : pc[u] = "init_lock" => t <= u
    /\ IF poisoned
       THEN /\ Return(t, "init", arg[t], StatusLockFailure, NoneV)
            /\ UNCHANGED <<slot, holder, poisoned, aborted, lin>>
       ELSE /\ holder' = t
            /\ Goto(t, "init_guard")
            /\ UNCHANGED <<slot, poisoned, aborted, arg, bpe>>

\* The lock recovering the guard from a poisoned Mutex (into_inner).
InitLockRecovers(t) ==
    /\ ~aborted
    /\ pc[t] = "init_lock"
    /\ LockFree
    /\ holder' = t
    /\ Goto(t, "init_guard")
    /\ UNCHANGED <<slot, poisoned, aborted, arg, bpe>>

\* line 25: TOKENIZER.lock().  On a poisoned Mutex the guard comes back inside
\* the error and is dropped with it (line 33).
InitLock(t) ==
    /\ ~aborted
    /\ pc[t] = "init_lock"
    /\ LockFree
    /\ IF poisoned
       THEN /\ Return(t, "init", arg[t], StatusLockFailure, NoneV)
            /\ UNCHANGED <<slot, holder, poisoned, aborted, lin>>
       ELSE /\ holder' = t
            /\ Goto(t, "init_guard")
            /\ UNCHANGED <<slot, poisoned, aborted, arg, bpe>>

\* line 27: the assignment starts, the old contents are dropped.
InitAssign(t) ==
    /\ ~aborted
    /\ pc[t] = "init_guard"
    /\ slot' = Tearing(slot.val)
    /\ Goto(t, "init_assign")
    /\ UNCHANGED <<holder, poisoned, aborted, arg, bpe>>

\* The store skipped when the resolution failed.
InitStoreOnlySome(t) ==
    /\ ~aborted
    /\ pc[t] = "init_assign"
    /\ slot' = Whole(IF bpe[t] = NoneV THEN slot.val ELSE bpe[t])
    /\ Unlock
    /\ Return(t, "init", arg[t],
              IF bpe[t] = NoneV THEN StatusResolutionFailed ELSE StatusOk,
              slot.val)
    /\ lin' = slot'.val
    /\ UNCHANGED aborted

\* The store keeping an encoder the slot already holds.
InitStoreKeepsOld(t) ==
    /\ ~aborted
    /\ pc[t] = "init_assign"
    /\ slot' = Whole(IF slot.val # NoneV THEN slot.val ELSE bpe[t])
    /\ Unlock
    /\ Return(t, "init", arg[t],
              IF bpe[t] = NoneV THEN StatusResolutionFailed ELSE StatusOk,
              slot.val)
    /\ lin' = slot'.val
    /\ UNCHANGED aborted

\* The store of a clone: the local `bpe` outlives the call.
InitStoreClones(t) ==
    /\ ~aborted
    /\ pc[t] = "init_assign"
    /\ slot' = Whole(bpe[t])
    /\ Unlock
    /\ pc' = [pc EXCEPT ![t] = "idle"]
    /\ arg' = [arg EXCEPT ![t] = NullPtr]
    /\ last' = Call("init", arg[t],
                    IF bpe[t] = NoneV THEN StatusResolutionFailed ELSE StatusOk,
                    slot.val)
    /\ lin' = bpe[t]
    /\ UNCHANGED <<aborted, bpe>>

\* lines 27-32: the new contents are in place, is_none decides the status,
\* the guard is dropped.
InitStore(t) ==
    /\ ~aborted
    /\ pc[t] = "init_assign"
    /\ slot' = Whole(bpe[t])
    /\ Unlock
    /\ Return(t, "init", arg[t],
              IF bpe[t] = NoneV THEN StatusResolutionFailed ELSE StatusOk,
              slot.val)
    /\ lin' = bpe[t]
    /\ UNCHANGED aborted

\* ---------------------------------------------------------- tiktoken_count

\* The null check reporting an error, as that of tiktoken_init does.
CountCallNullIsError(t, p) ==
    /\ ~aborted
    /\ pc[t] = "idle"
    /\ IF p.null
       THEN /\ Return(t, "count", p, StatusNullInput, NoneV)
            /\ UNCHANGED lin
       ELSE /\ arg' = [arg EXCEPT ![t] = p]
            /\ Goto(t, "count_lock")
            /\ UNCHANGED bpe
    /\ UNCHANGED <<slot, holder, poisoned, aborted>>

\* lines 38-44: null check, to_str.
CountCall(t, p) ==
    /\ ~aborted
    /\ pc[t] = "idle"
    /\ IF p.null
       THEN /\ Return(t, "count", p, 0, NoneV)
            /\ UNCHANGED lin
       ELSE /\ arg' = [arg EXCEPT ![t] = p]
            /\ Goto(t, "count_lock")
            /\ UNCHANGED bpe
    /\ UNCHANGED <<slot, holder, poisoned, aborted>>

\* The count emptying the slot when it finds the Mutex poisoned.
CountLockClearsOnPoison(t) ==
    /\ ~aborted
    /\ pc[t] = "count_lock"
    /\ LockFree
    /\ IF poisoned
       THEN /\ Return(t, "count", arg[t], 0, NoneV)
            /\ slot' = Whole(NoneV)
            /\ lin' = NoneV
            /\ UNCHANGED <<holder, poisoned, aborted>>
       ELSE /\ holder' = t
            /\ Goto(t, "count_guard")
            /\ UNCHANGED <<slot, poisoned, aborted, arg, bpe>>

\* The lock taken with try_lock: a held lock fails like a poisoned one.
CountLockTry(t) ==
    /\ ~aborted
    /\ pc[t] = "count_lock"
    /\ IF poisoned \/ ~LockFree
       THEN /\ Return(t, "count", arg[t], 0, NoneV)
            /\ UNCHANGED <<slot, holder, poisoned, aborted, lin>>
       ELSE /\ holder' = t
            /\ Goto(t, "count_guard")
            /\ UNCHANGED <<slot, poisoned, aborted, arg, bpe>>

\* line 46: TOKENIZER.lock(); line 51 on a poisoned Mutex.
CountLock(t) ==
    /\ ~aborted
    /\ pc[t] = "count_lock"
    /\ LockFree
    /\ IF poisoned
       THEN /\ Return(t, "count", arg[t], 0, NoneV)
            /\ UNCHANGED <<slot, holder, poisoned, aborted, lin>>
       ELSE /\ holder' = t
            /\ Goto(t, "count_guard")
            /\ UNCHANGED <<slot, poisoned, aborted, arg, bpe>>

\* The match counting bytes when there is no encoder.
CountResultLenWhenNone(t) ==
    IF slot.torn THEN 0..MaxTextLen
    ELSE IF slot.val = NoneV THEN {Len(CountStr(arg[t].bytes))}
    ELSE {Encode(slot.val, CountStr(arg[t].bytes))}

\* What the match on *tokenizer (lines 47-50) can yield: a read of a slot
\* another thread is assigning is a data race and yields anything.
CountResult(t) ==
    IF slot.torn THEN 0..MaxTextLen
    ELSE IF slot.val = NoneV THEN {0}
    ELSE {Encode(slot.val, CountStr(arg[t].bytes))}

\* The read moving the encoder out of the slot (Option::take).
CountReadTakes(t) ==
    /\ ~aborted
    /\ pc[t] = "count_guard"
    /\ \E r \in CountResult(t) :
         Return(t, "count", arg[t], r, NoneV)
    /\ Unlock
    /\ slot' = Whole(NoneV)
    /\ lin' = NoneV
    /\ UNCHANGED aborted

\* lines 47-50: the encoder runs under the guard, the guard is dropped.
CountRead(t) ==
    /\ ~aborted
    /\ pc[t] = "count_guard"
    /\ \E r \in CountResult(t) :
         Return(t, "count", arg[t], r, NoneV)
    /\ Unlock
    /\ UNCHANGED <<slot, aborted, lin>>

\* line 48: the encoder panics while the guard is held.  Unwinding drops the
\* guard, which poisons the Mutex; the panic then either leaves the
\* extern "C" function (the thread never returns) or aborts the process.
CountPanic(t) ==
    /\ ~aborted
    /\ pc[t] = "count_guard"
    /\ slot.val # NoneV
    /\ last' = Call("panic", arg[t], 0, NoneV)
    /\ \/ /\ poisoned' = TRUE
          /\ holder' = NoThread
          /\ pc' = [pc EXCEPT ![t] = "dead"]
          /\ UNCHANGED <<slot, aborted, arg, bpe, lin>>
       \/ /\ aborted' = TRUE
          /\ UNCHANGED <<slot, holder, poisoned, pc, arg, bpe, lin>>

\* -------------------------------------------------------- tiktoken_cleanup

\* line 56: the call.
CleanupCall(t) ==
    /\ ~aborted
    /\ pc[t] = "idle"
    /\ Goto(t, "cleanup_lock")
    /\ UNCHANGED <<slot, holder, poisoned, aborted, arg, bpe>>

\* The reset repairing a poisoned Mutex (clear_poison).
CleanupLockClearsPoison(t) ==
    /\ ~aborted
    /\ pc[t] = "cleanup_lock"
    /\ LockFree
    /\ IF poisoned
       THEN /\ Return(t, "cleanup", NullPtr, 0, NoneV)
            /\ poisoned' = FALSE
            /\ UNCHANGED <<slot, holder, aborted, lin>>
       ELSE /\ holder' = t
            /\ Goto(t, "cleanup_guard")
            /\ UNCHANGED <<slot, poisoned, aborted, arg, bpe>>

\* The lock recovering the guard from a poisoned Mutex (into_inner).
CleanupLockRecovers(t) ==
    /\ ~aborted
    /\ pc[t] = "cleanup_lock"
    /\ LockFree
    /\ holder' = t
    /\ Goto(t, "cleanup_guard")
    /\ UNCHANGED <<slot, poisoned, aborted, arg, bpe>>

\* line 57: TOKENIZER.lock(); `if let Ok` skips the body on a poisoned Mutex.
CleanupLock(t) ==
    /\ ~aborted
    /\ pc[t] = "cleanup_lock"
    /\ LockFree
    /\ IF poisoned
       THEN /\ Return(t, "cleanup", NullPtr, 0, NoneV)
            /\ UNCHANGED <<slot, holder, poisoned, aborted, lin>>
       ELSE /\ holder' = t
            /\ Goto(t, "cleanup_guard")
            /\ UNCHANGED <<slot, poisoned, aborted, arg, bpe>>

\* line 58: the assignment starts, the old contents are dropped.
CleanupAssign(t) ==
    /\ ~aborted
    /\ pc[t] = "cleanup_guard"
    /\ slot' = Tearing(slot.val)
    /\ Goto(t, "cleanup_assign")
    /\ UNCHANGED <<holder, poisoned, aborted, arg, bpe>>

\* The reset clearing a copy: the slot keeps what it held.
CleanupStoreKeeps(t) ==
    /\ ~aborted
    /\ pc[t] = "cleanup_assign"
    /\ slot' = Whole(slot.val)
    /\ Unlock
    /\ Return(t, "cleanup", NullPtr, 0, NoneV)
    /\ UNCHANGED <<aborted, lin>>

\* lines 58-59: None is in place, the guard is dropped.
CleanupStore(t) ==
    /\ ~aborted
    /\ pc[t] = "cleanup_assign"
    /\ slot' = Whole(NoneV)
    /\ Unlock
    /\ Return(t, "cleanup", NullPtr, 0, slot.val)
    /\ lin' = NoneV
    /\ UNCHANGED aborted

\* ------------------------------------------------------------ specification

Next ==
    \/ \E t \in Threads, p \in InitArgs : InitCall(t, p)
    \/ \E t \in Threads : InitLock(t)
    \/ \E t \in Threads : InitAssign(t)
    \/ \E t \in Threads : InitStore(t)
    \/ \E t \in Threads, p \in CountArgs : CountCall(t, p)
    \/ \E t \in Threads : CountLock(t)
    \/ \E t \in Threads : CountRead(t)
    \/ \E t \in Threads : CountPanic(t)
    \/ \E t \in Threads : CleanupCall(t)
    \/ \E t \in Threads : CleanupLock(t)
    \/ \E t \in Threads : CleanupAssign(t)
    \/ \E t \in Threads : CleanupStore(t)

Spec == Init /\ [][Next]_vars

\* -------------------------------------------- specification for termination

\* The arguments the callers pass when termination is checked: each path of
\* tiktoken_init (null, resolved, unrecognized) and of tiktoken_count (null,
\* text) is taken by one of them.
LiveInitArgs == {NullPtr, Ptr(<<"cl100k_base">>), Ptr(<<"unknown_scheme">>)}

LiveCountArgs == {NullPtr, Ptr(<<"a">>)}

\* The steps of callers whose encoder never panics: encode_with_special_tokens
\* (line 48) returns.
NextLive ==
    \/ \E t \in Threads, p \in LiveInitArgs : InitCall(t, p)
    \/ \E t \in Threads : InitLock(t)
    \/ \E t \in Threads : InitAssign(t)
    \/ \E t \in Threads : InitStore(t)
    \/ \E t \in Threads, p \in LiveCountArgs : CountCall(t, p)
    \/ \E t \in Threads : CountLock(t)
    \/ \E t \in Threads : CountRead(t)
    \/ \E t \in Threads : CleanupCall(t)
    \/ \E t \in Threads : CleanupLock(t)
    \/ \E t \in Threads : CleanupAssign(t)
    \/ \E t \in Threads : CleanupStore(t)

\* A fair scheduler: a thread that can run inside a call does run (weak
\* fairness on the steps under the guard), and a thread waiting in
\* Mutex::lock gets the lock if it is free again and again (strong fairness:
\* the lock is free only between the critical sections of the others).
\* Nothing makes a caller start a call.
Fairness ==
    \A t \in Threads :
      /\ SF_vars(InitLock(t))
      /\ SF_vars(CountLock(t))
      /\ SF_vars(CleanupLock(t))
      /\ WF_vars(InitAssign(t))
      /\ WF_vars(InitStore(t))
      /\ WF_vars(CountRead(t))
      /\ WF_vars(CleanupAssign(t))
      /\ WF_vars(CleanupStore(t))

SpecLive == Init /\ [][NextLive]_vars /\ Fairness

\* ------------------------------------------------------------------ claims

\* p points to valid text.
IsText(p) == ~p.null /\ IsUtf8(p.bytes)

\* p points to exactly one of the five recognized scheme names.
NamesScheme(p) == IsText(p) /\ \E n \in SchemeNames : p.bytes = <<n>>

\* p points to non-empty valid text.
IsNonEmptyText(p) == IsText(p) /\ Len(p.bytes) > 0

\* The arguments of tiktoken_init that are text but none of the five names.
UnrecognizedArgs == {p \in InitArgs : IsText(p) /\ ~NamesScheme(p)}

\* The call that ended last was operation o.
LastIs(o) == last.op = o

SchemeOf(p) == p.bytes[1]

\* Thread t's tiktoken_count returns in this step; last' holds its argument
\* and return value.
CountEnds(t) ==
    \/ CountCall(t, NullPtr)
    \/ CountLock(t) /\ pc'[t] = "idle"
    \/ CountRead(t)

\* C2 as stated: the call that ended last is a tiktoken_init on a recognized
\* name, whatever it returned, and the next call to end is a tiktoken_count on
\* non-empty text: that count is positive.
C2_AnyInitThenCountPositive ==
    [][\A t \in Threads :
         (/\ LastIs("init")
          /\ NamesScheme(last.arg)
          /\ CountEnds(t)
          /\ IsNonEmptyText(last'.arg))
         => last'.ret > 0
      ]_vars

\* C2: the call that ended last is a tiktoken_init on a recognized name that
\* returned 0, and the next call to end is a tiktoken_count on non-empty valid
\* text: that count is positive.
C2_InitOkThenCountPositive ==
    [][\A t \in Threads :
         (/\ LastIs("init")
          /\ last.ret = StatusOk
          /\ NamesScheme(last.arg)
          /\ CountEnds(t)
          /\ IsNonEmptyText(last'.arg))
         => last'.ret > 0
      ]_vars

\* C2 happens: tiktoken_init("r50k_base") returned 0 and a tiktoken_count on
\* "ab" is reading the slot it filled.
C2_Witness ==
    /\ last = Call("init", Ptr(<<"r50k_base">>), StatusOk, NoneV)
    /\ \E t \in Threads :
         /\ pc[t] = "count_guard"
         /\ arg[t] = Ptr(<<"a", "b">>)
         /\ CountResult(t) = {2}

\* C3, the slot: when the call that ended last is a tiktoken_init(B) that
\* returned 0 and replaced an encoder, and no thread holds the lock, the slot
\* holds the encoder of B.
C3_SlotHoldsB ==
    (/\ LastIs("init")
     /\ last.ret = StatusOk
     /\ NamesScheme(last.arg)
     /\ last.dropped # NoneV
     /\ holder = NoThread)
    => /\ ~slot.torn
       /\ slot.val \in Models
       /\ TokenizerOf(slot.val) = SchemeOf(last.arg)

\* C3, the count: after such a tiktoken_init(B), the next call to end, if it
\* is a tiktoken_count on a text, returns the token count of B's vocabulary.
C3_CountUsesB ==
    \A t \in Threads :
      (/\ LastIs("init")
       /\ last.ret = StatusOk
       /\ NamesScheme(last.arg)
       /\ last.dropped # NoneV
       /\ CountEnds(t)
       /\ ~last'.arg.null)
      => last'.ret = TokenCount(SchemeOf(last.arg), CountStr(last'.arg.bytes))

\* C3: re-initialization overwrites.
C3_Overwrite == []C3_SlotHoldsB /\ [][C3_CountUsesB]_vars

\* C3 happens: tiktoken_init("cl100k_base") replaced the encoder of r50k_base,
\* and a tiktoken_count on "ab", which the two segment differently, is reading
\* the slot.
C3_Witness ==
    /\ last = Call("init", Ptr(<<"cl100k_base">>), StatusOk, "gpt2")
    /\ \E t \in Threads :
         /\ pc[t] = "count_guard"
         /\ arg[t] = Ptr(<<"a", "b">>)
         /\ TokenCount("r50k_base", <<"a", "b">>) # TokenCount("cl100k_base", <<"a", "b">>)
         /\ CountResult(t) = {TokenCount("cl100k_base", <<"a", "b">>)}

\* Thread t is inside tiktoken_init, past the resolution.
InInit(t) == pc[t] \in {"init_lock", "init_guard", "init_assign"}

\* C4 as stated: a tiktoken_init on a recognized name whose resolution failed
\* returns -4 with the slot empty, whatever the state of the lock.
C4_FailedResolutionAlwaysClears ==
    [][\A t \in Threads :
         (InInit(t) /\ NamesScheme(arg[t]) /\ bpe[t] = NoneV /\ pc'[t] = "idle")
         => /\ last'.ret = StatusResolutionFailed
            /\ slot' = Whole(NoneV)
      ]_vars

\* C4: a tiktoken_init on a recognized name whose resolution failed, on a lock
\* that is not poisoned, acquires the lock, and returns -4 with the slot
\* empty and the lock released, whatever the slot held.
C4_FailedResolutionClears ==
    [][\A t \in Threads :
         (InInit(t) /\ NamesScheme(arg[t]) /\ bpe[t] = NoneV /\ ~poisoned)
         => /\ InitLock(t) => (holder' = t /\ pc'[t] = "init_guard")
            /\ pc'[t] = "idle"
               => /\ pc[t] = "init_assign"
                  /\ holder = t
                  /\ last' = Call("init", arg[t], StatusResolutionFailed, slot.val)
                  /\ slot' = Whole(NoneV)
                  /\ holder' = NoThread
      ]_vars

\* C4 happens: a failed resolution emptied a slot that held an encoder.
C4_Witness ==
    /\ last = Call("init", Ptr(<<"p50k_edit">>), StatusResolutionFailed, "gpt-4o")
    /\ slot = Whole(NoneV)

\* The states of a call in which it holds the MutexGuard.
GuardPcs == {"init_guard", "init_assign", "count_guard", "cleanup_guard", "cleanup_assign"}

\* At most one thread is inside the critical section, and it is the holder.
MutualExclusion ==
    /\ Cardinality({t \in Threads : pc[t] \in GuardPcs}) <= 1
    /\ \A t \in Threads : pc[t] \in GuardPcs <=> holder = t

\* A tiktoken_count inside the critical section never sees an assignment in
\* progress.
NoTornRead == \A t \in Threads : pc[t] = "count_guard" => ~slot.torn

\* With nobody inside the critical section, the slot is what the returned
\* calls, one after the other, leave.
SlotIsLin == holder = NoThread => slot = Whole(lin)

\* What tiktoken_count on p returns when run alone after the returned calls.
SeqCount(p) ==
    IF p.null \/ poisoned \/ lin = NoneV THEN 0
    ELSE TokenCount(TokenizerOf(lin), CountStr(p.bytes))

\* C5, the count: every tiktoken_count returns what it returns in the order
\* in which the calls returned.
C5_CountInOrder == \A t \in Threads : CountEnds(t) => last'.ret = SeqCount(last'.arg)

\* C5: the lock serializes the calls.
C5_Serialized ==
    [](MutualExclusion /\ NoTornRead /\ SlotIsLin) /\ [][C5_CountInOrder]_vars

\* C5 happens: a tiktoken_count reads the slot while a tiktoken_init that will
\* replace its encoder waits for the lock.
C5_Witness ==
    \E t, u \in Threads :
      /\ pc[t] = "count_guard"
      /\ IsNonEmptyText(arg[t])
      /\ pc[u] = "init_lock"
      /\ slot.val # NoneV
      /\ bpe[u] \notin {NoneV, slot.val}

\* C6, the step: tiktoken_init(null) returns -1 in one step that leaves the
\* slot, the lock holder and the poison flag as they were.
C6_NullStep ==
    \A t \in Threads :
      InitCall(t, NullPtr)
      => /\ last' = Call("init", NullPtr, StatusNullInput, NoneV)
         /\ pc'[t] = "idle"
         /\ UNCHANGED <<slot, holder, poisoned>>

\* C6, never blocked: an idle thread can always take that step, whoever holds
\* the lock.
C6_NullNeverBlocks ==
    \A t \in Threads : (pc[t] = "idle" /\ ~aborted) => ENABLED InitCall(t, NullPtr)

\* C6: tiktoken_init(null).
C6_NullInput == []C6_NullNeverBlocks /\ [][C6_NullStep]_vars

\* C6 happens: tiktoken_init(null) returned -1 while another thread was
\* assigning to the slot under the lock.
C6_Witness ==
    /\ last = Call("init", NullPtr, StatusNullInput, NoneV)
    /\ holder # NoThread
    /\ slot.torn
    /\ slot.val # NoneV

\* C7: a tiktoken_count that ends while the slot is empty returns 0, on
\* non-empty text, empty text and no text.
C7_EmptyCountsZero ==
    [][\A t \in Threads : (CountEnds(t) /\ slot = Whole(NoneV)) => last'.ret = 0]_vars

\* C7 happens: tiktoken_count("ab") returned 0 on an empty slot.
C7_Witness ==
    /\ last = Call("count", Ptr(<<"a", "b">>), 0, NoneV)
    /\ slot = Whole(NoneV)
    /\ holder = NoThread
    /\ ~poisoned

\* C8: a tiktoken_init that finds the Mutex poisoned returns -3 in a step that
\* leaves the slot as it was.
C8_PoisonedInit ==
    [][\A t \in Threads :
         (InitLock(t) /\ poisoned)
         => /\ last' = Call("init", arg[t], StatusLockFailure, NoneV)
            /\ pc'[t] = "idle"
            /\ UNCHANGED <<slot, poisoned>>
      ]_vars

\* C8 happens: tiktoken_init returned -3 and the slot still holds an encoder.
C8_Witness ==
    /\ LastIs("init")
    /\ last.ret = StatusLockFailure
    /\ poisoned
    /\ slot.val # NoneV

\* C9: a tiktoken_count that finds the Mutex poisoned returns 0, and a
\* tiktoken_cleanup that finds it poisoned returns, each in a step that leaves
\* the slot as it was.
C9_PoisonedCountAndCleanup ==
    [][\A t \in Threads :
         /\ (CountLock(t) /\ poisoned)
            => /\ last' = Call("count", arg[t], 0, NoneV)
               /\ pc'[t] = "idle"
               /\ UNCHANGED <<slot, poisoned>>
         /\ (CleanupLock(t) /\ poisoned)
            => /\ last' = Call("cleanup", NullPtr, 0, NoneV)
               /\ pc'[t] = "idle"
               /\ UNCHANGED <<slot, poisoned>>
      ]_vars

\* C9 happens: tiktoken_cleanup returned on a poisoned Mutex and the slot still
\* holds an encoder.
C9_Witness ==
    /\ LastIs("cleanup")
    /\ poisoned
    /\ slot.val # NoneV

\* p points to bytes that are not valid text.
IsNotText(p) == ~p.null /\ ~IsUtf8(p.bytes)

\* The arguments of tiktoken_init that are not valid text.
InvalidArgs == {p \in InitArgs : IsNotText(p)}

C10_InvalidNameStep ==
    \A t \in Threads, p \in InvalidArgs :
      InitCall(t, p)
      => /\ pc'[t] = "init_lock"
         /\ bpe'[t] = NoneV \/ TokenizerOf(bpe'[t]) = "cl100k_base"
         /\ UNCHANGED <<slot, holder, poisoned, last>>

\* C10, the return: such a call never returns -2; it returns 0, -3 or -4, and
\* once it has returned 0 and nobody holds the lock, the slot holds the
\* encoder of cl100k_base.
C10_InvalidNameReturn ==
    (LastIs("init") /\ IsNotText(last.arg))
    => /\ last.ret \in {StatusOk, StatusLockFailure, StatusResolutionFailed}
       /\ (last.ret = StatusOk /\ holder = NoThread)
          => (slot.val \in Models /\ TokenizerOf(slot.val) = "cl100k_base")

EmptyTextCount ==
    IF poisoned \/ slot.val = NoneV THEN 0
    ELSE TokenCount(TokenizerOf(slot.val), <<>>)

\* C11: a tiktoken_count on bytes that are not valid text returns what a
\* tiktoken_count on the empty text returns in that state, in a step that
\* leaves the slot as it was.
C11_InvalidTextIsEmpty ==
    [][\A t \in Threads :
         (CountEnds(t) /\ IsNotText(last'.arg))
         => /\ last'.ret = EmptyTextCount
            /\ slot' = slot
      ]_vars

\* C11 happens: tiktoken_count on "a" followed by a bad byte returned 0 from a
\* slot that holds an encoder.
C11_Witness ==
    /\ last = Call("count", Ptr(<<"a", BadByte>>), 0, NoneV)
    /\ slot = Whole("gpt2")
    /\ ~poisoned

\* C12: tiktoken_count(null) on a slot that holds an encoder returns 0 in one
\* step that leaves the slot, the lock holder and the poison flag as they were.
C12_NullTextOnReady ==
    [][\A t \in Threads :
         (CountCall(t, NullPtr) /\ slot.val # NoneV)
         => /\ last' = Call("count", NullPtr, 0, NoneV)
            /\ pc'[t] = "idle"
            /\ UNCHANGED <<slot, holder, poisoned>>
      ]_vars

\* C12 happens: tiktoken_count(null) returned 0 and the slot holds the encoder
\* of o200k_base, with a usable lock nobody holds.
C12_Witness ==
    /\ last = Call("count", NullPtr, 0, NoneV)
    /\ slot = Whole("gpt-4o")
    /\ holder = NoThread
    /\ ~poisoned

\* C13, one reset: after a tiktoken_cleanup returned on a usable lock, and
\* with nobody inside the critical section, the slot is empty.
C13_ResetEmpties ==
    (LastIs("cleanup") /\ ~poisoned /\ holder = NoThread) => slot = Whole(NoneV)

\* C13, a second reset: a tiktoken_cleanup that ends right after another, on a
\* usable lock, drops nothing and leaves the slot empty, as the first left it.
C13_SecondResetSame ==
    \A t \in Threads :
      (LastIs("cleanup") /\ ~poisoned /\ CleanupStore(t))
      => /\ last' = Call("cleanup", NullPtr, 0, NoneV)
         /\ slot' = Whole(NoneV)
         /\ lin' = lin

\* C13: reset is idempotent.
C13_ResetIdempotent == []C13_ResetEmpties /\ [][C13_SecondResetSame]_vars

\* C13 happens: a tiktoken_cleanup emptied a slot that held an encoder and a
\* second one is assigning to the slot.
C13_Witness ==
    /\ LastIs("cleanup")
    /\ last.dropped # NoneV
    /\ ~poisoned
    /\ \E t \in Threads : pc[t] = "cleanup_assign"

\* C14, the function: a tiktoken_count that reads a slot holding the encoder
\* of a scheme returns what that scheme's vocabulary gives for the text, and
\* nothing else.
C14_CountIsFunction ==
    \A t \in Threads :
      (CountRead(t) /\ slot.val # NoneV)
      => last'.ret = TokenCount(TokenizerOf(slot.val), CountStr(arg[t].bytes))

\* C14, the repetition: when a tiktoken_count ended, and the next call to end
\* (no tiktoken_init, tiktoken_cleanup or panic in between) is a
\* tiktoken_count on the same text, the two return the same integer.
C14_RepeatedCountSame ==
    \A t \in Threads :
      (LastIs("count") /\ CountEnds(t) /\ last'.arg = last.arg)
      => last'.ret = last.ret

\* C14: determinism of tiktoken_count for a fixed scheme and a fixed text.
C14_Determinism == [][C14_CountIsFunction /\ C14_RepeatedCountSame]_vars

\* C14 happens: a tiktoken_count on "ab" returned its count on a slot holding
\* an encoder while a second tiktoken_count on "ab", which started before the
\* first ended, is reading the slot.
C14_Witness ==
    /\ LastIs("count")
    /\ last.arg = Ptr(<<"a", "b">>)
    /\ last.ret > 0
    /\ slot.val # NoneV
    /\ \E t \in Threads : pc[t] = "count_guard" /\ arg[t] = last.arg

\* The encoders that exist: the one in the slot and the resolved ones in the
\* local `bpe` of the tiktoken_init calls in flight.
EncoderCount ==
    (IF slot.val # NoneV THEN 1 ELSE 0)
    + Cardinality({t \in Threads : bpe[t] # NoneV})

\* C15 as stated: the encoder in the slot and the encoders resolved but not
\* yet stored are at most one in all.
C15_AtMostOneEncoder == EncoderCount <= 1

\* C15: the slot holds at most one encoder; a resolved encoder outside the
\* slot belongs to a tiktoken_init in flight, one a call at most, so that the
\* encoders are at most one more than the calls to tiktoken_init in flight.
C15_OnePerSlotAndCall ==
    /\ slot.val \in Models \cup {NoneV}
    /\ \A t \in Threads : bpe[t] # NoneV => InInit(t)
    /\ EncoderCount <= 1 + Cardinality({t \in Threads : InInit(t)})

\* C15 happens: the slot holds an encoder while a tiktoken_init, with a second
\* encoder resolved, waits for the lock.
C15_Witness ==
    /\ slot = Whole("gpt2")
    /\ \E t \in Threads : pc[t] = "init_lock" /\ bpe[t] = "gpt-4o"

\* Thread t's tiktoken_init returns in this step; last' holds its argument and
\* status.
InitEnds(t) ==
    \/ \E p \in InitArgs : InitCall(t, p) /\ pc'[t] = "idle"
    \/ InitLock(t) /\ pc'[t] = "idle"
    \/ InitStore(t)

\* C16, the return: the step in which a tiktoken_init returns a non-zero
\* status leaves the slot as it was or empty, and so does it leave the slot
\* the returned calls make.
C16_FailedInitEnd ==
    \A t \in Threads :
      (InitEnds(t) /\ last'.ret # StatusOk)
      => /\ slot' = slot \/ slot' = Whole(NoneV)
         /\ slot'.val \in {slot.val, NoneV}
         /\ lin' \in {lin, NoneV}

\* C16, on the way: the steps before the return of a tiktoken_init whose
\* resolution failed put no encoder in the slot that was not there.
C16_FailedInitStep ==
    \A t \in Threads :
      (InInit(t) /\ bpe[t] = NoneV /\ (InitLock(t) \/ InitAssign(t)))
      => slot'.val = slot.val

\* C16: a failing tiktoken_init never leaves in the slot an encoder that was
\* not there before.
C16_FailureNeverCorrupts == [][C16_FailedInitEnd /\ C16_FailedInitStep]_vars

\* C16 happens: tiktoken_init("r50k_base") failed to resolve and emptied a
\* slot that held the encoder of p50k_base.
C16_Witness ==
    /\ last = Call("init", Ptr(<<"r50k_base">>), StatusResolutionFailed, "text-davinci-003")
    /\ slot = Whole(NoneV)
    /\ lin = NoneV

\* Thread t takes a step of tiktoken_count.
CountStep(t) ==
    \/ \E p \in CountArgs : CountCall(t, p)
    \/ CountLock(t)
    \/ CountRead(t)
    \/ CountPanic(t)

\* C17: every step of tiktoken_count, whatever its argument, the contents of
\* the slot and the state of the lock, leaves the slot as it was.
C17_CountReadOnly ==
    [][\A t \in Threads : CountStep(t) => (slot' = slot /\ lin' = lin)]_vars

\* C17 happens: a tiktoken_count on "ab" returned a positive count and the
\* slot holds the encoder of cl100k_base that it read, with the lock free.
C17_Witness ==
    /\ last = Call("count", Ptr(<<"a", "b">>), TokenCount("cl100k_base", <<"a", "b">>), NoneV)
    /\ last.ret > 0
    /\ slot = Whole("gpt-3.5-turbo")
    /\ holder = NoThread
    /\ ~poisoned

\* The scheme tiktoken_init resolves for the argument p.
InitScheme(p) == TokenizerOf(ModelOf(InitStr(p.bytes)))

\* Two calls to tiktoken_init, each with an encoder resolved, wait for a lock
\* that is free and usable.
InitRace ==
    /\ ~aborted
    /\ ~poisoned
    /\ holder = NoThread
    /\ \A t \in Threads : pc[t] = "init_lock" /\ bpe[t] # NoneV

\* C18, either order: in a race each of the two calls can take the lock next,
\* and so each can be the one that takes it last.
C18_EitherWins == InitRace => \A t \in Threads : ENABLED InitLock(t)

\* C18, the outcome: when the call that ended last is a tiktoken_init that
\* returned 0 and nobody holds the lock, the slot holds the encoder of that
\* call's scheme and nothing else.
C18_LastWriterHeld ==
    (LastIs("init") /\ last.ret = StatusOk /\ holder = NoThread)
    => /\ ~slot.torn
       /\ slot.val \in Models
       /\ TokenizerOf(slot.val) = InitScheme(last.arg)

\* C18, the write: a tiktoken_init returns 0 holding the lock, in the step
\* that puts its own encoder in the slot and drops what the slot held, the
\* encoder of the other call included.
C18_LastWriterStep ==
    \A t \in Threads :
      (InitEnds(t) /\ last'.ret = StatusOk)
      => /\ holder = t
         /\ holder' = NoThread
         /\ slot' = Whole(bpe[t])
         /\ TokenizerOf(bpe[t]) = InitScheme(arg[t])
         /\ last'.dropped = slot.val

\* C18: of two racing calls to tiktoken_init, the last to take the lock wins.
C18_LastWriterWins ==
    [](C18_EitherWins /\ C18_LastWriterHeld) /\ [][C18_LastWriterStep]_vars

\* C18 happens: tiktoken_init("o200k_base") and tiktoken_init("p50k_base")
\* race, each with its encoder resolved; the second thread took the lock first
\* and is storing, the first waits and will take the lock last.
C18_Witness ==
    /\ pc[2] = "init_assign"
    /\ arg[2] = Ptr(<<"p50k_base">>)
    /\ bpe[2] = "text-davinci-003"
    /\ pc[1] = "init_lock"
    /\ arg[1] = Ptr(<<"o200k_base">>)
    /\ bpe[1] = "gpt-4o"
    /\ ~poisoned

\* C20, the state: a poisoned Mutex is held by nobody and guards a whole slot.
C20_PoisonedState == poisoned => (holder = NoThread /\ ~slot.torn)

\* C20, the steps: from a state with the Mutex poisoned, every step leaves it
\* poisoned and the slot as it was; a tiktoken_init past its resolution ends
\* with -3, a tiktoken_count ends with 0, and a tiktoken_cleanup ends having
\* assigned nothing.
C20_PoisonedStep ==
    poisoned
    => /\ poisoned'
       /\ slot' = slot
       /\ lin' = lin
       /\ \A t \in Threads :
            /\ (InInit(t) /\ pc'[t] = "idle")
               => last' = Call("init", arg[t], StatusLockFailure, NoneV)
            /\ CountEnds(t) => (last'.op = "count" /\ last'.ret = 0)
            /\ (pc[t] = "cleanup_lock" /\ pc'[t] # pc[t])
               => (pc'[t] = "idle" /\ last' = Call("cleanup", NullPtr, 0, NoneV))

\* C20: a poisoned Mutex is never repaired.
C20_NeverRepaired == []C20_PoisonedState /\ [][C20_PoisonedStep]_vars

\* C20 happens: on a poisoned Mutex a tiktoken_count on "a" returned 0 from a
\* slot that still holds an encoder, and a tiktoken_init with an encoder
\* resolved is about to take the lock.
C20_Witness ==
    /\ poisoned
    /\ last = Call("count", Ptr(<<"a">>), 0, NoneV)
    /\ slot = Whole("gpt-4o")
    /\ \E t \in Threads : pc[t] = "init_lock" /\ bpe[t] # NoneV

\* C19, the release: a thread that is not inside a critical section holds no
\* guard, so that a call that returned has released the lock.
C19_LockReleased ==
    \A t \in Threads : pc[t] \in {"idle", "init_lock", "count_lock", "cleanup_lock"}
                       => holder # t

\* C19, no deadlock: whenever a call is in flight, some thread can step.
C19_NoDeadlock ==
    (\E t \in Threads : pc[t] # "idle") => ENABLED NextLive

\* C19, the return: under a fair scheduler every call in flight returns.
C19_EveryCallReturns ==
    \A t \in Threads : (pc[t] # "idle") ~> (pc[t] = "idle")

====
